---- MODULE Spec2Model ----
(***************************************************************************)
(* Model of custom_components/frigate/views.py: the reverse proxy views of *)
(* the Frigate integration.  One request is followed from ProxyView.get    *)
(* through ProxyView._handle_request to the value get returns or raises.   *)
(*                                                                         *)
(* Text is modelled as a sequence of tokens.  A token is a piece of text   *)
(* that the code never looks inside: "/" , "." and "?" are the characters  *)
(* the code and urllib.parse.urljoin act on; "thumbnail.jpg",              *)
(* "snapshot.jpg" and "clip.mp4" are the literals _create_url compares     *)
(* with; "a" and "e" stand for ordinary text of a camera name or an event  *)
(* id.  The text a sequence stands for is the concatenation of its tokens, *)
(* so <<"a", "clip.mp4">> is the path "aclip.mp4", which ends with         *)
(* "clip.mp4", and <<".", ".">> is the dot segment "..".                   *)
(*                                                                         *)
(* Header values and IP literals are TLA+ strings; a header collection is  *)
(* a sequence of <<name, value>> pairs in wire order (a multidict), and a  *)
(* Python dict is such a sequence with pairwise different names, kept in   *)
(* insertion order.                                                        *)
(***************************************************************************)
EXTENDS Integers, Sequences, FiniteSets, TLC

VARIABLES
    state,          \* position of the request in get/_handle_request
    view,           \* the ProxyView serving the route: its class and _host
    request,        \* the inbound request: match_info, headers, peer, host
    upstream,       \* what the backend answers: status, headers, body chunks
    url,            \* the value of self._create_url(**kwargs), line 52
    upstreamCalls,  \* number of self._websession.request calls issued
    sentHeaders,    \* headers= of the upstream call (source_header)
    response,       \* the web.StreamResponse built at lines 67-71
    held,           \* TRUE inside the "async with ... as result" block
    released,       \* TRUE once the block's __aexit__ released result
    prologue,       \* status sent to the client by response.prepare
    readCount,      \* chunks taken from result.content.iter_chunked
    pending,        \* the chunk read and not yet written (data)
    written,        \* chunks the client has received, in order
    failure,        \* the await that raised, the exception, the chunks sent
    outcome         \* what get returned or raised

vars == <<state, view, request, upstream, url, upstreamCalls, sentHeaders,
          response, held, released, prologue, readCount, pending, written,
          failure, outcome>>

\* Python's None where a string is expected (headers.get of a missing name).
None == "None"

(***************************************************************************)
(* Bounds of the model.                                                    *)
(***************************************************************************)
MaxPathLen == 3
MaxIdLen == 2
MaxHdrs == 2
MaxChunks == 3

(***************************************************************************)
(* Program constants.                                                      *)
(***************************************************************************)
HTTP_NOT_FOUND == 404
HTTP_BAD_GATEWAY == 502

(***************************************************************************)
(* Token sequences of bounded length.                                      *)
(***************************************************************************)
SeqsUpTo(S, n) == UNION {[1..k -> S] : k \in 0..n}

\* str.split(sep) for a one-token separator: the list of pieces.
RECURSIVE Split(_, _)
Split(s, sep) ==
    IF \E i \in 1..Len(s) : s[i] = sep
    THEN LET i == CHOOSE j \in 1..Len(s) :
                      s[j] = sep /\ \A k \in 1..(j - 1) : s[k] # sep
         IN  <<SubSeq(s, 1, i - 1)>> \o Split(SubSeq(s, i + 1, Len(s)), sep)
    ELSE <<s>>

\* sep.join(parts)
RECURSIVE Join(_, _)
Join(parts, sep) ==
    IF Len(parts) = 0 THEN <<>>
    ELSE IF Len(parts) = 1 THEN parts[1]
    ELSE parts[1] \o <<sep>> \o Join(Tail(parts), sep)

\* str.endswith(suffix)
EndsWith(s, suffix) ==
    /\ Len(s) >= Len(suffix)
    /\ SubSeq(s, Len(s) - Len(suffix) + 1, Len(s)) = suffix

(***************************************************************************)
(* urllib.parse.urljoin(base, url), for the calls the views make: base is  *)
(* self._host, an origin with or without a trailing "/", and url starts    *)
(* with "/" (an absolute path reference with no scheme and no netloc).     *)
(* urljoin keeps the base's scheme and netloc, splits the query off url at *)
(* its first "?", removes the dot segments of the path as RFC 3986 asks,   *)
(* and puts the parts together again; an empty query is dropped.           *)
(***************************************************************************)
DOT == <<".">>
DOTDOT == <<".", ".">>

\* the loop "for seg in segments" of urljoin
RECURSIVE ResolveSegments(_, _)
ResolveSegments(segments, resolved) ==
    IF Len(segments) = 0 THEN resolved
    ELSE LET seg == Head(segments) IN
         ResolveSegments(Tail(segments),
            IF seg = DOTDOT
            THEN (IF Len(resolved) = 0 THEN resolved
                  ELSE SubSeq(resolved, 1, Len(resolved) - 1))
            ELSE IF seg = DOT THEN resolved
            ELSE Append(resolved, seg))

RemoveDotSegments(p) ==
    LET segments == Split(p, "/")
        resolved == ResolveSegments(segments, <<>>)
        closed == IF segments[Len(segments)] \in {DOT, DOTDOT}
                  THEN Append(resolved, <<>>) ELSE resolved
        joined == Join(closed, "/")
    IN  IF joined = <<>> THEN <<"/">> ELSE joined

UrlJoin(base, rel) ==
    LET parts == Split(rel, "?")
        p == RemoveDotSegments(parts[1])
        q == IF Len(parts) = 1 THEN <<>>
             ELSE SubSeq(rel, Len(parts[1]) + 2, Len(rel))
        rooted == IF p[1] = "/" THEN p ELSE <<"/">> \o p
    IN  <<base[1]>> \o rooted \o (IF q = <<>> THEN <<>> ELSE <<"?">> \o q)

(***************************************************************************)
(* The three views' _create_url.  A URL is a token sequence; NoUrl stands  *)
(* for the None that NotificationsProxyView._create_url returns by falling *)
(* off its end ("if not url" treats None and "" alike, and urljoin never   *)
(* returns "" for these arguments).                                        *)
(***************************************************************************)
NoUrl == <<>>

ClipsProxyView_create_url(host, path) ==
    UrlJoin(host, <<"/", "clips", "/">> \o path)

RecordingsProxyView_create_url(host, path) ==
    UrlJoin(host, <<"/", "recordings", "/">> \o path)

\* a slip that takes the last path segment for the camera
NotificationsLastSegment(host, event_id, path) ==
    IF path = <<"thumbnail.jpg">>
    THEN UrlJoin(host, <<"/", "api", "/", "events", "/">> \o event_id
                       \o <<"/", "thumbnail.jpg">>)
    ELSE IF path = <<"snapshot.jpg">>
    THEN UrlJoin(host, <<"/", "api", "/", "events", "/">> \o event_id
                       \o <<"/", "snapshot.jpg">>)
    ELSE LET parts == Split(path, "/")
             camera == parts[Len(parts)]
         IN  IF EndsWith(path, <<"clip.mp4">>)
             THEN UrlJoin(host, <<"/", "clips", "/">> \o camera \o <<"-">>
                                \o event_id \o <<".mp4">>)
             ELSE NoUrl

\* a slip that maps every remaining path to a clip
NotificationsAlwaysClip(host, event_id, path) ==
    IF path = <<"thumbnail.jpg">>
    THEN UrlJoin(host, <<"/", "api", "/", "events", "/">> \o event_id
                       \o <<"/", "thumbnail.jpg">>)
    ELSE IF path = <<"snapshot.jpg">>
    THEN UrlJoin(host, <<"/", "api", "/", "events", "/">> \o event_id
                       \o <<"/", "snapshot.jpg">>)
    ELSE LET camera == Split(path, "/")[1]
         IN  UrlJoin(host, <<"/", "clips", "/">> \o camera \o <<"-">>
                           \o event_id \o <<".mp4">>)

NotificationsProxyView_create_url(host, event_id, path) ==
    IF path = <<"thumbnail.jpg">>
    THEN UrlJoin(host, <<"/", "api", "/", "events", "/">> \o event_id
                       \o <<"/", "thumbnail.jpg">>)
    ELSE IF path = <<"snapshot.jpg">>
    THEN UrlJoin(host, <<"/", "api", "/", "events", "/">> \o event_id
                       \o <<"/", "snapshot.jpg">>)
    ELSE LET camera == Split(path, "/")[1]
         IN  IF EndsWith(path, <<"clip.mp4">>)
             THEN UrlJoin(host, <<"/", "clips", "/">> \o camera \o <<"-">>
                                \o event_id \o <<".mp4">>)
             ELSE NoUrl

\* self._create_url(**kwargs): dispatch on the view's class
_create_url(v, match_info) ==
    CASE v.kind = "Clips" ->
            ClipsProxyView_create_url(v.host, match_info.path)
      [] v.kind = "Recordings" ->
            RecordingsProxyView_create_url(v.host, match_info.path)
      [] v.kind = "Notifications" ->
            NotificationsProxyView_create_url(v.host, match_info.event_id,
                                              match_info.path)

(***************************************************************************)
(* Header names.  aiohttp.hdrs holds the names in their canonical casing;  *)
(* a name arrives in the casing the peer sent, and items() of a            *)
(* CIMultiDict yields it in that casing.  Lower gives the case-folded form *)
(* a CIMultiDict looks names up by; Python's ==, the "in" test on a tuple  *)
(* and the keys of a dict compare the strings as they are.                 *)
(***************************************************************************)
CONTENT_LENGTH == "Content-Length"
CONTENT_ENCODING == "Content-Encoding"
CONTENT_TYPE == "Content-Type"
TRANSFER_ENCODING == "Transfer-Encoding"
SEC_WEBSOCKET_EXTENSIONS == "Sec-WebSocket-Extensions"
SEC_WEBSOCKET_PROTOCOL == "Sec-WebSocket-Protocol"
SEC_WEBSOCKET_VERSION == "Sec-WebSocket-Version"
SEC_WEBSOCKET_KEY == "Sec-WebSocket-Key"
X_FORWARDED_FOR == "X-Forwarded-For"
X_FORWARDED_HOST == "X-Forwarded-Host"
X_FORWARDED_PROTO == "X-Forwarded-Proto"

CaseTable ==
    { <<CONTENT_LENGTH, "content-length">>,
      <<CONTENT_ENCODING, "content-encoding">>,
      <<CONTENT_TYPE, "content-type">>,
      <<TRANSFER_ENCODING, "transfer-encoding">>,
      <<SEC_WEBSOCKET_EXTENSIONS, "sec-websocket-extensions">>,
      <<SEC_WEBSOCKET_PROTOCOL, "sec-websocket-protocol">>,
      <<SEC_WEBSOCKET_VERSION, "sec-websocket-version">>,
      <<SEC_WEBSOCKET_KEY, "sec-websocket-key">>,
      <<X_FORWARDED_FOR, "x-forwarded-for">>,
      <<X_FORWARDED_HOST, "x-forwarded-host">>,
      <<X_FORWARDED_PROTO, "x-forwarded-proto">>,
      <<"Accept", "accept">>,
      <<"Set-Cookie", "set-cookie">> }

\* str.lower() of a header name; a name outside the table is lower case
Lower(name) ==
    IF \E p \in CaseTable : p[1] = name
    THEN (CHOOSE p \in CaseTable : p[1] = name)[2]
    ELSE name

\* CIMultiDict.get(key): the first value stored under the name, any casing
CIGet(items, key) ==
    IF \E i \in 1..Len(items) : Lower(items[i][1]) = Lower(key)
    THEN items[CHOOSE i \in 1..Len(items) :
                  /\ Lower(items[i][1]) = Lower(key)
                  /\ \A j \in 1..(i - 1) : Lower(items[j][1]) # Lower(key)][2]
    ELSE None

\* headers[name] = value on a dict: replace in place, or insert at the end
DictSet(d, name, value) ==
    IF \E i \in 1..Len(d) : d[i][1] = name
    THEN [i \in 1..Len(d) |-> IF d[i][1] = name THEN <<name, value>> ELSE d[i]]
    ELSE Append(d, <<name, value>>)

\* the loops "for name, value in ....headers.items()" of both sanitizers:
\* skip the names of the tuple, store every other pair into the dict
RECURSIVE FilterCopy(_, _, _)
FilterCopy(items, dropped, headers) ==
    IF Len(items) = 0 THEN headers
    ELSE LET name == Head(items)[1]
             value == Head(items)[2]
         IN  FilterCopy(Tail(items), dropped,
                        IF name \in dropped THEN headers
                        ELSE DictSet(headers, name, value))

\* str(ip_address(peername[0])): the socket layer reports the peer as a
\* canonical address literal, which ip_address parses and prints unchanged
ip_address(peer) == peer

REQUEST_DROPPED ==
    { CONTENT_LENGTH, CONTENT_ENCODING, SEC_WEBSOCKET_EXTENSIONS,
      SEC_WEBSOCKET_PROTOCOL, SEC_WEBSOCKET_VERSION, SEC_WEBSOCKET_KEY }

RESPONSE_DROPPED == { TRANSFER_ENCODING, CONTENT_TYPE, CONTENT_ENCODING }

\* Python truthiness of an Optional[str]
Truthy(v) == v # None /\ v # ""

_init_header(req) ==
    LET copied == FilterCopy(req.headers, REQUEST_DROPPED, <<>>)
        got_for == CIGet(req.headers, X_FORWARDED_FOR)
        connected_ip == ip_address(req.peer)
        forward_for == IF Truthy(got_for)
                       THEN got_for \o ", " \o connected_ip
                       ELSE connected_ip
        got_host == CIGet(req.headers, X_FORWARDED_HOST)
        forward_host == IF Truthy(got_host) THEN got_host ELSE req.host
        got_proto == CIGet(req.headers, X_FORWARDED_PROTO)
        forward_proto == IF Truthy(got_proto) THEN got_proto ELSE req.scheme
    IN  DictSet(DictSet(DictSet(copied, X_FORWARDED_FOR, forward_for),
                        X_FORWARDED_HOST, forward_host),
                X_FORWARDED_PROTO, forward_proto)

_response_header(result) ==
    FilterCopy(result.headers, RESPONSE_DROPPED, <<>>)

(***************************************************************************)
(* Exceptions.  The code tells exceptions apart by class only: the inner   *)
(* handler (line 78) names aiohttp.ClientError and ClientPayloadError, the *)
(* outer one in get (line 43) names aiohttp.ClientError, of which          *)
(* ClientPayloadError is a subclass.  "Other" is any exception of another  *)
(* class (asyncio.TimeoutError, ConnectionResetError, ...).  Every await   *)
(* on the network either completes or raises one of the classes.           *)
(***************************************************************************)
ClientErrors == {"ClientError", "ClientPayloadError"}
Exceptions == ClientErrors \cup {"Other"}

\* a handler that names only ClientPayloadError
StreamCatchesOnlyPayload(exc) == exc = "ClientPayloadError"

\* a loop with no handler of its own
StreamCatchesNothing(exc) == FALSE

\* except (aiohttp.ClientError, aiohttp.ClientPayloadError), line 78
StreamCatches(exc) == exc \in {"ClientError", "ClientPayloadError"}

\* a get that lets every exception through
GetCatchesNothing(exc) == FALSE

\* except aiohttp.ClientError, line 43
GetCatches(exc) == exc \in ClientErrors

\* a block that releases the upstream response on a normal return only
ReleaseOnReturnOnly(exc) == exc = None

\* "async with ... as result": __aexit__ releases result however the block
\* is left, by return (exc = None) or by an exception
AsyncWithExit(exc) == TRUE

NoOutcome == [type |-> "None", status |-> 0]
NoFailure == [at |-> "none", exc |-> None, sent |-> 0]
NoResponse == [status |-> 0, headers |-> <<>>, content_type |-> ""]
NoPrologue == [sent |-> FALSE, status |-> 0, headers |-> <<>>,
               content_type |-> ""]

\* what get does with an exception that leaves _handle_request, lines 43-46
GetRaises(exc) ==
    IF GetCatches(exc)
    THEN [type |-> "HTTPBadGateway", status |-> HTTP_BAD_GATEWAY]
    ELSE [type |-> "Exception", status |-> 0]

Terminal == {"NotFound", "UpstreamFailed", "StreamComplete", "StreamFailed",
             "Raised"}

(***************************************************************************)
(* The inputs: the view, the request and what the backend will answer.     *)
(***************************************************************************)
Origin == "http://frigate:5000"
Hosts == {<<Origin>>, <<Origin, "/">>}
Kinds == {"Clips", "Recordings", "Notifications"}

PathTokens == {"a", "/", ".", "?", "thumbnail.jpg", "snapshot.jpg", "clip.mp4"}
IdTokens == {"e", ".", "?"}

\* {path:.*} matches any rest of the path, the empty one too
AllPaths == SeqsUpTo(PathTokens, MaxPathLen)
\* {event_id} matches one or more characters other than "/"
AllIds == SeqsUpTo(IdTokens, MaxIdLen) \ {<<>>}

SomePaths == { <<"thumbnail.jpg">>, <<"snapshot.jpg">>,
               <<"a", "/", "clip.mp4">>, <<"a">>, <<>> }
SomeIds == { <<"e">> }

HeaderValues == {"", "10.0.0.1", "v"}
RequestNames ==
    REQUEST_DROPPED \cup
    { "content-length", X_FORWARDED_FOR, "x-forwarded-for", X_FORWARDED_HOST,
      X_FORWARDED_PROTO, "Accept" }
ResponseNames ==
    RESPONSE_DROPPED \cup
    { "transfer-encoding", CONTENT_LENGTH, "Set-Cookie" }

AllRequestHeaders == SeqsUpTo(RequestNames \X HeaderValues, MaxHdrs)
AllResponseHeaders == SeqsUpTo(ResponseNames \X HeaderValues, MaxHdrs)

SomeRequestHeaders ==
    { <<>>, << <<X_FORWARDED_FOR, "10.0.0.1">>, <<CONTENT_LENGTH, "v">> >> }
SomeResponseHeaders ==
    { <<>>, << <<CONTENT_LENGTH, "v">>, <<TRANSFER_ENCODING, "v">> >> }

Statuses == {200, 302}
Bodies(n) == {[i \in 1..k |-> i] : k \in 0..n}

Views == [kind : Kinds, host : Hosts]

Requests(kind, ids, paths, headers) ==
    [ event_id : IF kind = "Notifications" THEN ids ELSE {<<>>},
      path : paths,
      headers : headers,
      peer : {"203.0.113.5"},
      host : {"ha.local"},
      scheme : {"https"} ]

Upstreams(headers, n) ==
    [ status : Statuses, headers : headers, content_type : {"video/mp4"},
      body : Bodies(n) ]

\* the state when get is entered
Entered ==
    /\ state = "Start"
    /\ url = NoUrl
    /\ upstreamCalls = 0
    /\ sentHeaders = <<>>
    /\ response = NoResponse
    /\ held = FALSE
    /\ released = FALSE
    /\ prologue = NoPrologue
    /\ readCount = 0
    /\ pending = 0
    /\ written = <<>>
    /\ failure = NoFailure
    /\ outcome = NoOutcome

Init ==
    /\ view \in Views
    /\ request \in Requests(view.kind, SomeIds, SomePaths, SomeRequestHeaders)
    /\ upstream \in Upstreams(SomeResponseHeaders, MaxChunks)
    /\ Entered

\* every path and event id, one backend answer
InitUrl ==
    /\ view \in Views
    /\ request \in Requests(view.kind, AllIds, AllPaths, {<<>>})
    /\ upstream \in Upstreams({<<>>}, 0)
    /\ Entered

\* every header collection on one side, one route
InitHdr ==
    /\ view = [kind |-> "Clips", host |-> <<Origin>>]
    /\ \/ /\ request \in Requests(view.kind, SomeIds, {<<"a">>},
                                  AllRequestHeaders)
          /\ upstream \in Upstreams({<<>>}, 0)
       \/ /\ request \in Requests(view.kind, SomeIds, {<<"a">>}, {<<>>})
          /\ upstream \in Upstreams(AllResponseHeaders, 0)
    /\ Entered

(***************************************************************************)
(* The steps of ProxyView.get and ProxyView._handle_request.               *)
(***************************************************************************)

\* lines 52-54: resolve the URL, or return a status-only 404
ResolveUrl ==
    /\ state = "Start"
    /\ url' = _create_url(view, request)
    /\ IF url' = NoUrl
       THEN /\ state' = "NotFound"
            /\ outcome' = [type |-> "Response", status |-> HTTP_NOT_FOUND]
       ELSE /\ state' = "URLResolved"
            /\ outcome' = outcome
    /\ UNCHANGED <<view, request, upstream, upstreamCalls, sentHeaders,
                   response, held, released, prologue, readCount, pending,
                   written, failure>>

\* lines 56-65: read the body, build the headers, issue the upstream call
\* (request.read and _init_header are taken to complete: the inbound body is
\* not looked at, and the peer address is a literal ip_address accepts)
CallUpstream ==
    /\ state = "URLResolved"
    /\ state' = "UpstreamCalled"
    /\ sentHeaders' = _init_header(request)
    /\ upstreamCalls' = upstreamCalls + 1
    /\ UNCHANGED <<view, request, upstream, url, response, held, released,
                   prologue, readCount, pending, written, failure, outcome>>

\* lines 66-71: the call returned a response; build the StreamResponse
UpstreamAnswers ==
    /\ state = "UpstreamCalled"
    /\ state' = "UpstreamOK"
    /\ held' = TRUE
    /\ response' = [status |-> upstream.status,
                    headers |-> _response_header(upstream),
                    content_type |-> upstream.content_type]
    /\ UNCHANGED <<view, request, upstream, url, upstreamCalls, sentHeaders,
                   released, prologue, readCount, pending, written, failure,
                   outcome>>

\* lines 59-66 raise: no response was obtained, the exception reaches get
UpstreamCallFails(exc) ==
    /\ state = "UpstreamCalled"
    /\ failure' = [at |-> "call", exc |-> exc, sent |-> 0]
    /\ state' = IF GetCatches(exc) THEN "UpstreamFailed" ELSE "Raised"
    /\ outcome' = GetRaises(exc)
    /\ UNCHANGED <<view, request, upstream, url, upstreamCalls, sentHeaders,
                   response, held, released, prologue, readCount, pending,
                   written>>

\* an await inside the try block (lines 74-76) raises: line 78 catches it
\* and line 81 returns the response, or it leaves the async with block and
\* reaches get; either way the block is left
RaisedInStream(at, exc) ==
    /\ failure' = [at |-> at, exc |-> exc, sent |-> Len(written)]
    /\ pending' = 0
    /\ held' = FALSE
    /\ IF StreamCatches(exc)
       THEN /\ state' = "StreamFailed"
            /\ released' = AsyncWithExit(None)
            /\ outcome' = [type |-> "StreamResponse",
                           status |-> response.status]
       ELSE /\ state' = IF GetCatches(exc) THEN "UpstreamFailed" ELSE "Raised"
            /\ released' = AsyncWithExit(exc)
            /\ outcome' = GetRaises(exc)
    /\ UNCHANGED <<view, request, upstream, url, upstreamCalls, sentHeaders,
                   response, prologue, readCount, written>>

\* line 74: response.prepare sends the status line and the headers
Prepare ==
    /\ state = "UpstreamOK"
    /\ state' = "PrologueSent"
    /\ prologue' = [sent |-> TRUE, status |-> response.status,
                    headers |-> response.headers,
                    content_type |-> response.content_type]
    /\ UNCHANGED <<view, request, upstream, url, upstreamCalls, sentHeaders,
                   response, held, released, readCount, pending, written,
                   failure, outcome>>

PrepareFails(exc) ==
    /\ state = "UpstreamOK"
    /\ RaisedInStream("prepare", exc)

\* line 75: the loop over result.content.iter_chunked(4096) is entered
EnterLoop ==
    /\ state = "PrologueSent"
    /\ state' = "Streaming"
    /\ UNCHANGED <<view, request, upstream, url, upstreamCalls, sentHeaders,
                   response, held, released, prologue, readCount, pending,
                   written, failure, outcome>>

\* line 75: the next chunk arrives
ReadChunk ==
    /\ state = "Streaming"
    /\ pending = 0
    /\ readCount < Len(upstream.body)
    /\ readCount' = readCount + 1
    /\ pending' = upstream.body[readCount + 1]
    /\ UNCHANGED <<state, view, request, upstream, url, upstreamCalls,
                   sentHeaders, response, held, released, prologue, written,
                   failure, outcome>>

\* line 75: the read raises instead
ReadFails(exc) ==
    /\ state = "Streaming"
    /\ pending = 0
    /\ RaisedInStream("read", exc)

\* line 76: the chunk is written to the client
WriteChunk ==
    /\ state = "Streaming"
    /\ pending # 0
    /\ written' = Append(written, pending)
    /\ pending' = 0
    /\ UNCHANGED <<state, view, request, upstream, url, upstreamCalls,
                   sentHeaders, response, held, released, prologue, readCount,
                   failure, outcome>>

\* line 76: the write raises instead (the client went away)
WriteFails(exc) ==
    /\ state = "Streaming"
    /\ pending # 0
    /\ RaisedInStream("write", exc)

\* lines 75 and 81: the body is exhausted, the loop ends, response returned
StreamEnds ==
    /\ state = "Streaming"
    /\ pending = 0
    /\ readCount = Len(upstream.body)
    /\ state' = "StreamComplete"
    /\ held' = FALSE
    /\ released' = AsyncWithExit(None)
    /\ outcome' = [type |-> "StreamResponse", status |-> response.status]
    /\ UNCHANGED <<view, request, upstream, url, upstreamCalls, sentHeaders,
                   response, prologue, readCount, pending, written, failure>>

Next ==
    \/ ResolveUrl
    \/ CallUpstream
    \/ UpstreamAnswers
    \/ \E exc \in Exceptions : UpstreamCallFails(exc)
    \/ Prepare
    \/ \E exc \in Exceptions : PrepareFails(exc)
    \/ EnterLoop
    \/ ReadChunk
    \/ \E exc \in Exceptions : ReadFails(exc)
    \/ WriteChunk
    \/ \E exc \in Exceptions : WriteFails(exc)
    \/ StreamEnds

Spec == Init /\ [][Next]_vars

\* URL resolution over every path and event id, up to the upstream call
NextUrl == ResolveUrl \/ CallUpstream

SpecUrl == InitUrl /\ [][NextUrl]_vars

\* the two header sanitizers over every header collection
NextHdr == ResolveUrl \/ CallUpstream \/ UpstreamAnswers

SpecHdr == InitHdr /\ [][NextHdr]_vars

(***************************************************************************)
(* Properties.                                                             *)
(***************************************************************************)

\* the three forms of path NotificationsProxyView._create_url recognises
Recognized(path) ==
    \/ path = <<"thumbnail.jpg">>
    \/ path = <<"snapshot.jpg">>
    \/ EndsWith(path, <<"clip.mp4">>)

\* C1: a Notifications request whose path is none of the three recognised
\* forms resolves to no URL, is answered by a status-only 404 response, and
\* no upstream call is issued for it.
C1_UnrecognizedIs404 ==
    (view.kind = "Notifications" /\ ~Recognized(request.path)
        /\ state # "Start")
    => /\ url = NoUrl
       /\ state = "NotFound"
       /\ outcome = [type |-> "Response", status |-> HTTP_NOT_FOUND]
       /\ upstreamCalls = 0
       /\ ~prologue.sent /\ written = <<>>

C1_Witness ==
    /\ view.kind = "Notifications"
    /\ request.path = <<"a", "/", "thumbnail.jpg">>
    /\ state = "NotFound"
    /\ outcome.status = HTTP_NOT_FOUND

C4_WriteFailureUnwinds ==
    (failure.at = "write")
    => /\ state = "StreamFailed"
       /\ released /\ ~held
       /\ readCount = failure.sent + 1
       /\ written = SubSeq(upstream.body, 1, failure.sent)
       /\ outcome = [type |-> "StreamResponse", status |-> upstream.status]

\* C5: in every terminal state of a request that obtained an upstream
\* response, that response has been released, and no request is in a
\* terminal state while still holding it.
C5_UpstreamReleased ==
    state \in Terminal
    => /\ ~held
       /\ (response # NoResponse => released)

C5_Witness ==
    /\ state = "Raised"
    /\ failure.at = "write"
    /\ response # NoResponse
    /\ released

\* the values stored under a name (any casing), in order
ValuesOf(items, name) ==
    LET under == SelectSeq(items, LAMBDA p : Lower(p[1]) = Lower(name))
    IN  [i \in 1..Len(under) |-> under[i][2]]

LowerAll(names) == {Lower(n) : n \in names}

FORWARDING == {X_FORWARDED_FOR, X_FORWARDED_HOST, X_FORWARDED_PROTO}

\* C6: with names compared case-insensitively, the headers sent upstream
\* hold none of the six dropped names, and every other inbound header but
\* the three forwarding ones keeps all its values in their order.
C6_RequestHeadersSanitized ==
    state = "UpstreamCalled"
    => /\ \A i \in 1..Len(sentHeaders) :
            Lower(sentHeaders[i][1]) \notin LowerAll(REQUEST_DROPPED)
       /\ \A i \in 1..Len(request.headers) :
            LET name == request.headers[i][1] IN
            Lower(name) \notin LowerAll(REQUEST_DROPPED \cup FORWARDING)
            => ValuesOf(sentHeaders, name) = ValuesOf(request.headers, name)

\* C7: the headers sent upstream carry exactly one X-Forwarded-For value:
\* the peer alone when the inbound request has no (or an empty) value under
\* any casing of the name, and "v, peer" when it has the value v.
C7_SingleForwardedFor ==
    state = "UpstreamCalled"
    => LET v == CIGet(request.headers, X_FORWARDED_FOR)
       IN  ValuesOf(sentHeaders, X_FORWARDED_FOR) =
              << IF Truthy(v) THEN v \o ", " \o request.peer
                 ELSE request.peer >>

\* C8: with names compared case-insensitively, the headers given to the
\* client hold no Transfer-Encoding, Content-Type or Content-Encoding of the
\* upstream, and every other upstream header is there with its value.
C8_ResponseHeadersSanitized ==
    state = "UpstreamOK"
    => /\ \A i \in 1..Len(response.headers) :
            Lower(response.headers[i][1]) \notin LowerAll(RESPONSE_DROPPED)
       /\ \A i \in 1..Len(upstream.headers) :
            LET name == upstream.headers[i][1]
                value == upstream.headers[i][2]
            IN  Lower(name) \notin LowerAll(RESPONSE_DROPPED)
                => \E j \in 1..Len(response.headers) :
                      /\ Lower(response.headers[j][1]) = Lower(name)
                      /\ response.headers[j][2] = value

\* base/... : the URL spelled out, the pieces put after the origin as is
Spelled(rel) == <<Origin>> \o rel

EventUrl(event_id, suffix) ==
    Spelled(<<"/", "api", "/", "events", "/">> \o event_id \o <<"/", suffix>>)

ClipUrl(camera, event_id) ==
    Spelled(<<"/", "clips", "/">> \o camera \o <<"-">> \o event_id
            \o <<".mp4">>)

Camera(path) == Split(path, "/")[1]

NotificationsUrlAsClaimed ==
    /\ request.path = <<"thumbnail.jpg">>
       => url = EventUrl(request.event_id, "thumbnail.jpg")
    /\ request.path = <<"snapshot.jpg">>
       => url = EventUrl(request.event_id, "snapshot.jpg")
    /\ EndsWith(request.path, <<"clip.mp4">>)
       => url = ClipUrl(Camera(request.path), request.event_id)

HasQuery(s) == \E i \in 1..Len(s) : s[i] = "?"

ClaimedTransitions ==
    { <<"Start", "URLResolved">>, <<"Start", "NotFound">>,
      <<"URLResolved", "UpstreamCalled">>,
      <<"UpstreamCalled", "UpstreamFailed">>, <<"UpstreamCalled", "UpstreamOK">>,
      <<"UpstreamOK", "PrologueSent">>, <<"PrologueSent", "Streaming">>,
      <<"Streaming", "Streaming">>,
      <<"Streaming", "StreamComplete">>, <<"Streaming", "StreamFailed">> }

\* an exception of a class the code does not name leaves get from the await
\* that raised it
Propagations ==
    { <<"UpstreamCalled", "Raised">>, <<"UpstreamOK", "Raised">>,
      <<"Streaming", "Raised">> }

\* the step goes along one of the transitions
Takes(transitions) == <<state, state'>> \in transitions

Ordering ==
    /\ (written # <<>> \/ pending # 0 \/ readCount > 0) => prologue.sent
    /\ state = "StreamComplete" => written = upstream.body
    /\ state \in Terminal <=> outcome # NoOutcome

====
